---- MODULE Spec2Model ----
(***************************************************************************)
(* Model of next-url-state: the single-key hook useQueryState and the      *)
(* multi-key hook useQueryStates, the memoisation of the parsed value, the *)
(* query patches the setters hand to the batch router, and the application *)
(* of queued patches by the navigation service.                            *)
(*                                                                         *)
(* JavaScript values are tagged records, so that values of different       *)
(* JavaScript types can be compared; a JavaScript string is the sequence   *)
(* of its characters, an object is a function over its property names.     *)
(***************************************************************************)
EXTENDS Integers, Sequences, FiniteSets, TLC

VARIABLES query, memo, callback, value, update, rendered,
          values, updateStates, renderedStates, calls, last, applied

vars == <<query, memo, callback, value, update, rendered,
          values, updateStates, renderedStates, calls, last, applied>>

---------------------------------------------------------------------------
(* Bounds *)

\* Longest queue of navigation calls waiting to be applied.
MaxCalls == 2

---------------------------------------------------------------------------
(* JavaScript values *)

Undefined == [t |-> "undef"]
Null == [t |-> "null"]
Str(s) == [t |-> "str", v |-> s]
Num(n) == [t |-> "num", v |-> n]
Bool(b) == [t |-> "bool", v |-> b]
Arr(a) == [t |-> "arr", v |-> a]
Obj(f) == [t |-> "obj", v |-> f]
Fn(n) == [t |-> "fn", name |-> n]
None == [t |-> "none"]

EmptyObj == [k \in {} |-> Undefined]

\* obj[k]: reading a property that is absent gives undefined.
Get(obj, k) == IF k \in DOMAIN obj THEN obj[k] ELSE Undefined

\* { ...a, ...b }
Spread(a, b) ==
    [k \in DOMAIN a \cup DOMAIN b |-> IF k \in DOMAIN b THEN b[k] ELSE a[k]]

\* x || y
OrElse(x, y) == IF x \in {Undefined, Null, Str(<<>>)} THEN y ELSE x

\* Array.prototype.join on an array of strings.
RECURSIVE join(_, _)
join(a, sep) ==
    IF Len(a) = 0 THEN <<>>
    ELSE IF Len(a) = 1 THEN a[1]
    ELSE a[1] \o sep \o join(Tail(a), sep)

Digit == <<"0", "1", "2", "3", "4", "5", "6", "7", "8", "9">>

IsDigit(c) == \E i \in 1..10 : Digit[i] = c

DigitValue(c) == (CHOOSE i \in 1..10 : Digit[i] = c) - 1

\* Decimal representation of a natural number.
RECURSIVE IntToStr(_)
IntToStr(n) ==
    IF n < 10 THEN <<Digit[n + 1]>>
    ELSE IntToStr(n \div 10) \o <<Digit[(n % 10) + 1]>>

\* The natural number a sequence of decimal digits stands for.
RECURSIVE StrToInt(_)
StrToInt(s) ==
    IF Len(s) = 0 THEN 0
    ELSE 10 * StrToInt(SubSeq(s, 1, Len(s) - 1)) + DigitValue(s[Len(s)])

---------------------------------------------------------------------------
(* Serializers *)

\* parse = (x) => (x === undefined ? null : x)
defaultParse(x) == IF x = Undefined THEN Null ELSE x

\* defaultSerializer: type-preserving identity.
defaultSerializer(x) == x

\* queryTypes.integer.parse
integerParse(x) ==
    IF x.t = "str" /\ Len(x.v) > 0 /\ \A i \in 1..Len(x.v) : IsDigit(x.v[i])
    THEN Num(StrToInt(x.v))
    ELSE Null

\* queryTypes.integer.serialize
integerSerialize(x) ==
    IF x.t = "num" THEN Str(IntToStr(x.v))
    ELSE IF x \in {Undefined, Null} THEN x
    ELSE Str(<<"N", "a", "N">>)

Parse(p, x) == IF p = "integer" THEN integerParse(x) ELSE defaultParse(x)

Serialize(s, x) == IF s = "integer" THEN integerSerialize(x) ELSE defaultSerializer(x)

\* Updater functions the callers pass to the single-key setter:
\* (prev) => prev! + 1 and () => undefined.
CallUpdater(f, prev) ==
    IF f.name = "inc" THEN (IF prev.t = "num" THEN Num(prev.v + 1) ELSE Num(1))
    ELSE Undefined

---------------------------------------------------------------------------
(* useQueryState *)

\* The key the single-key hook is bound to.
key == "val"

push == Str(<<"p", "u", "s", "h">>)
replace == Str(<<"r", "e", "p", "l", "a", "c", "e">>)

isUpdaterFunction(input) == input.t = "fn"

\* history = "replace" in the destructured options.
historyOrDefault(h) == IF h = Undefined THEN replace ELSE h

\* memoDeps with parse and serialize always among the dependencies.
memoDepsAlwaysFns(routerValue, dynamic, parse, serialize) ==
    << IF routerValue.t = "arr" THEN Str(join(routerValue.v, <<"|">>)) ELSE routerValue,
       Fn(parse), Fn(serialize) >>

\* The dependency array of useMemo.
memoDeps(routerValue, dynamic, parse, serialize) ==
    << IF routerValue.t = "arr" THEN Str(join(routerValue.v, <<"|">>)) ELSE routerValue,
       IF dynamic THEN Fn(parse) ELSE Null,
       IF dynamic THEN Fn(serialize) ELSE Null >>

\* The dependency array of useCallback (batchRouter never changes).
callbackDeps(history, dynamic, parse, serialize) ==
    << key, history,
       IF dynamic THEN Fn(parse) ELSE Null,
       IF dynamic THEN Fn(serialize) ELSE Null >>

\* React.useMemo / React.useCallback: the cached result is kept while the
\* dependency array is unchanged.
useMemo(cache, computed, deps) ==
    IF cache # None /\ cache.deps = deps THEN cache
    ELSE [t |-> "memo", deps |-> deps, result |-> computed]

\* One render of a component that calls useQueryState(key, options).
\* rendered records what this render was given.
Render(historyOpt, dynamic, parse, serialize) ==
    LET history == historyOrDefault(historyOpt)
        routerValue == Get(query, key)
        m == useMemo(memo, Parse(parse, routerValue),
                     memoDeps(routerValue, dynamic, parse, serialize))
        c == useMemo(callback,
                     [t |-> "update", key |-> key, history |-> history,
                      parse |-> parse, serialize |-> serialize],
                     callbackDeps(history, dynamic, parse, serialize))
    IN /\ memo' = m
       /\ callback' = c
       /\ value' = m.result
       /\ update' = c.result
       /\ rendered' = [t |-> "render", history |-> historyOpt, dynamic |-> dynamic,
                       parse |-> parse, serialize |-> serialize,
                       routerValue |-> routerValue,
                       stable |-> rendered = None
                                  \/ (/\ rendered.stable
                                      /\ rendered.parse = parse
                                      /\ rendered.serialize = serialize)]
       /\ UNCHANGED <<query, values, updateStates, renderedStates, calls, last, applied>>

\* queryUpdaterFn merging the new value even when it is undefined.
queryUpdaterFnAlwaysMerge(fn, prevObj) ==
    LET arg == Parse(fn.parse, Get(prevObj, fn.key))
        newVal == Serialize(fn.serialize, CallUpdater(fn.stateUpdater, arg))
    IN [arg |-> arg, res |-> Spread(prevObj, [k \in {fn.key} |-> newVal])]

\* queryUpdaterFn calling the updater function with the value of the render.
queryUpdaterFnStale(fn, prevObj) ==
    LET arg == value
        newVal == Serialize(fn.serialize, CallUpdater(fn.stateUpdater, arg))
    IN [arg |-> arg,
        res |-> IF newVal # Undefined
                THEN Spread(prevObj, [k \in {fn.key} |-> newVal])
                ELSE prevObj]

\* The function patch built by update for an updater function, applied to
\* prevObj.  arg is the value the updater function was called with.
queryUpdaterFn(fn, prevObj) ==
    LET arg == Parse(fn.parse, Get(prevObj, fn.key))
        newVal == Serialize(fn.serialize, CallUpdater(fn.stateUpdater, arg))
    IN [arg |-> arg,
        res |-> IF newVal # Undefined
                THEN Spread(prevObj, [k \in {fn.key} |-> newVal])
                ELSE prevObj]

\* queryUpdater leaving the key out of the patch object when its serialized
\* value is undefined.
queryUpdaterDropUndefined(u, stateUpdater) ==
    IF isUpdaterFunction(stateUpdater)
    THEN [t |-> "fn", hook |-> "useQueryState", key |-> u.key, parse |-> u.parse,
          serialize |-> u.serialize, stateUpdater |-> stateUpdater]
    ELSE Obj([k \in {k \in {u.key} : Serialize(u.serialize, stateUpdater) # Undefined}
                |-> Serialize(u.serialize, stateUpdater)])

\* The query patch built by update.
queryUpdater(u, stateUpdater) ==
    IF isUpdaterFunction(stateUpdater)
    THEN [t |-> "fn", hook |-> "useQueryState", key |-> u.key, parse |-> u.parse,
          serialize |-> u.serialize, stateUpdater |-> stateUpdater]
    ELSE Obj([k \in {u.key} |-> Serialize(u.serialize, stateUpdater)])

\* history || options?.history
historyModeHookFirst(options, history) ==
    OrElse(history,
           IF options = Undefined THEN Undefined ELSE Get(options.v, "history"))

\* options?.history || history
historyMode(options, history) ==
    OrElse(IF options = Undefined THEN Undefined ELSE Get(options.v, "history"),
           history)

\* routerCall passing the transition options as the second argument.
routerCallSecond(mode, patch, transitionOptions) ==
    [method |-> IF mode = push THEN "push" ELSE "replace",
     url |-> [query |-> patch],
     as |-> transitionOptions,
     options |-> Undefined]

\* batchRouter.push / batchRouter.replace as called with three arguments.
routerCall(mode, patch, transitionOptions) ==
    [method |-> IF mode = push THEN "push" ELSE "replace",
     url |-> [query |-> patch],
     as |-> Undefined,
     options |-> transitionOptions]

\* The calls update(stateUpdater, options, transitionOptions) makes on the
\* batch router, u being the closure returned by the hook.
updateCalls(u, stateUpdater, options, transitionOptions) ==
    << routerCall(historyMode(options, u.history),
                  queryUpdater(u, stateUpdater), transitionOptions) >>

---------------------------------------------------------------------------
(* useQueryStates *)

\* (v.serialize || defaultSerializer)(x)
serializeWith(v, x) ==
    IF v.serialize = "none" THEN defaultSerializer(x) ELSE Serialize(v.serialize, x)

parseObject(q, keys) ==
    [k \in DOMAIN keys |-> Parse(keys[k].parse, Get(q, k))]

\* serializeAndRemoveUndefined without the test that the key is in vals.
serializeAllKeys(vals, keys) ==
    LET serializedVal(k) == serializeWith(keys[k], Obj(vals))
    IN [k \in {k \in DOMAIN keys : serializedVal(k) # Undefined} |-> serializedVal(k)]

serializeAndRemoveUndefined(vals, keys) ==
    LET serializedVal(k) == serializeWith(keys[k], Obj(vals))
    IN [k \in {k \in DOMAIN keys : k \in DOMAIN vals /\ serializedVal(k) # Undefined}
          |-> serializedVal(k)]

\* Updater functions the callers pass to the multi-key setter:
\* (old) => ({val: old.val + 1}), () => ({val: undefined}) and () => ({}).
CallStatesUpdater(f, old) ==
    IF f.name = "incVal"
    THEN [k \in {"val"} |-> CallUpdater(Fn("inc"), Get(old, "val"))]
    ELSE IF f.name = "undefVal" THEN [k \in {"val"} |-> Undefined]
    ELSE EmptyObj

\* One render of a component that calls useQueryStates(keys, options).
RenderStates(keys, historyOpt) ==
    /\ values' = parseObject(query, keys)
    /\ updateStates' = [t |-> "update", keys |-> keys,
                        history |-> historyOrDefault(historyOpt)]
    /\ renderedStates' = [t |-> "render", keys |-> keys, history |-> historyOpt]
    /\ UNCHANGED <<query, memo, callback, value, update, rendered, calls, last, applied>>

\* The function patch built by the multi-key update, applied to prevObj.
queryUpdaterStatesFn(fn, prevObj) ==
    LET prev == parseObject(prevObj, fn.keys)
        updated == CallStatesUpdater(fn.stateUpdater, prev)
    IN [arg |-> Obj(prev),
        res |-> Spread(prevObj, serializeAndRemoveUndefined(updated, fn.keys))]

\* The query patch built by the multi-key update.
queryUpdaterStates(u, stateUpdater) ==
    IF isUpdaterFunction(stateUpdater)
    THEN [t |-> "fn", hook |-> "useQueryStates", keys |-> u.keys,
          stateUpdater |-> stateUpdater]
    ELSE Obj(serializeAndRemoveUndefined(stateUpdater.v, u.keys))

updateStatesCalls(u, stateUpdater, options, transitionOptions) ==
    << routerCall(historyMode(options, u.history),
                  queryUpdaterStates(u, stateUpdater), transitionOptions) >>

---------------------------------------------------------------------------
(* The navigation service *)

\* query(prev) for a function patch, { ...prev, ...query } for an object.
applyPatch(patch, prevObj) ==
    IF patch.t = "fn"
    THEN IF patch.hook = "useQueryState" THEN queryUpdaterFn(patch, prevObj)
         ELSE queryUpdaterStatesFn(patch, prevObj)
    ELSE [arg |-> None, res |-> Spread(prevObj, patch.v)]

\* The queued patches applied in call order, each to the result of the one
\* before; the log keeps, per patch, its input, the argument the updater
\* function was called with and its result.
RECURSIVE applyAll(_, _)
applyAll(cs, d) ==
    IF cs = <<>> THEN <<>>
    ELSE LET r == applyPatch(Head(cs).url.query, d)
         IN << [call |-> Head(cs), in |-> d, arg |-> r.arg, res |-> r.res] >>
            \o applyAll(Tail(cs), r.res)

---------------------------------------------------------------------------
(* Inputs *)

Keys == {"val", "other"}

s123 == Str(<<"1", "2", "3">>)
sJoined == Str(<<"a", "|", "b">>)
aPair == Arr(<< <<"a">>, <<"b">> >>)
sBar == Str(<<"b", "a", "r">>)

RawValues == [val |-> {s123, sJoined, aPair}, other |-> {Str(<<"x">>)}]

\* The raw query dictionaries the router can hold: each key is absent or
\* holds one of its raw values.
Dicts ==
    {d \in UNION {[ks -> UNION {RawValues[k] : k \in Keys}] : ks \in SUBSET Keys} :
        \A k \in DOMAIN d : d[k] \in RawValues[k]}

HistoryOptions == {push, replace}

SerializerNames == {"default", "integer"}

UpdaterFunctions == {Fn("inc"), Fn("undef")}

StateUpdaters == {sBar, Num(123), Undefined} \cup UpdaterFunctions

SetOptions ==
    {Undefined, Obj(EmptyObj)} \cup {Obj([k \in {"history"} |-> h]) : h \in HistoryOptions}

TransitionOptions == {Undefined, Obj(EmptyObj), Obj([k \in {"shallow"} |-> Bool(TRUE)])}

KeyMaps == {[k \in {"val"} |-> [parse |-> "integer", serialize |-> "integer"]],
            [k \in Keys |-> IF k = "val"
                            THEN [parse |-> "integer", serialize |-> "integer"]
                            ELSE [parse |-> "default", serialize |-> "none"]]}

StatesUpdaters == {Obj([k \in {"val"} |-> Num(124)]),
                   Obj([k \in {"other"} |-> Str(<<"y">>)]),
                   Obj([k \in {"val"} |-> Undefined]),
                   Fn("incVal"), Fn("undefVal")}

---------------------------------------------------------------------------
(* Actions *)

Init ==
    /\ query \in Dicts
    /\ memo = None
    /\ callback = None
    /\ value = None
    /\ update = None
    /\ rendered = None
    /\ values = None
    /\ updateStates = None
    /\ renderedStates = None
    /\ calls = <<>>
    /\ last = None
    /\ applied = <<>>

\* The router's query changes (a navigation, from this library or not).
Navigate(d) ==
    /\ d # query
    /\ query' = d
    /\ UNCHANGED <<memo, callback, value, update, rendered, values, updateStates,
                   renderedStates, calls, last, applied>>

\* setValue(stateUpdater, options, transitionOptions) of useQueryState.
\* last records the arguments and the history the hook was configured with.
SetValue(stateUpdater, options, transitionOptions) ==
    /\ update # None
    /\ calls' = calls \o updateCalls(update, stateUpdater, options, transitionOptions)
    /\ last' = [hook |-> "useQueryState", history |-> rendered.history,
                stateUpdater |-> stateUpdater, options |-> options,
                transitionOptions |-> transitionOptions]
    /\ applied' = <<>>
    /\ UNCHANGED <<query, memo, callback, value, update, rendered, values,
                   updateStates, renderedStates>>

\* setValues(stateUpdater, options, transitionOptions) of useQueryStates.
SetValues(stateUpdater, options, transitionOptions) ==
    /\ updateStates # None
    /\ calls' = calls \o updateStatesCalls(updateStates, stateUpdater, options,
                                           transitionOptions)
    /\ last' = [hook |-> "useQueryStates", history |-> renderedStates.history,
                stateUpdater |-> stateUpdater, options |-> options,
                transitionOptions |-> transitionOptions]
    /\ applied' = <<>>
    /\ UNCHANGED <<query, memo, callback, value, update, rendered, values,
                   updateStates, renderedStates>>

\* The navigation service applies the queued patches to the current query.
ApplyPatches ==
    /\ calls # <<>>
    /\ applied' = applyAll(calls, query)
    /\ calls' = <<>>
    /\ last' = None
    /\ UNCHANGED <<query, memo, callback, value, update, rendered, values,
                   updateStates, renderedStates>>

\* Renders of the single-key hook while the router's query changes.
NextRender ==
    \/ \E d \in Dicts : Navigate(d)
    \/ \E h \in HistoryOptions \cup {Undefined}, dynamic \in BOOLEAN,
          s \in SerializerNames : Render(h, dynamic, s, s)

SpecRender == Init /\ [][NextRender]_vars

\* Both hooks rendered, by a caller that keeps parse and serialize the same
\* (dynamic is false), and their setters called, each call applied by the
\* navigation service before the next one is made.
Next ==
    \/ \E h \in HistoryOptions \cup {Undefined}, s \in SerializerNames :
          /\ rendered # None => rendered.parse = s
          /\ Render(h, FALSE, s, s)
    \/ \E keys \in KeyMaps, h \in HistoryOptions \cup {Undefined} :
          RenderStates(keys, h)
    \/ /\ calls = <<>>
       /\ \E su \in StateUpdaters, o \in SetOptions, t \in TransitionOptions :
             SetValue(su, o, t)
    \/ /\ calls = <<>>
       /\ \E su \in StatesUpdaters, o \in SetOptions, t \in TransitionOptions :
             SetValues(su, o, t)
    \/ ApplyPatches

Spec == Init /\ [][Next]_vars

\* Functional updates of the single-key hook queued up before the navigation
\* service applies them.
NextQueue ==
    \/ \E h \in HistoryOptions \cup {Undefined}, s \in SerializerNames :
          /\ rendered # None => rendered.parse = s
          /\ Render(h, FALSE, s, s)
    \/ /\ Len(calls) < MaxCalls
       /\ \E su \in UpdaterFunctions, o \in SetOptions : SetValue(su, o, Undefined)
    \/ ApplyPatches

SpecQueue == Init /\ [][NextQueue]_vars

---------------------------------------------------------------------------
(* Properties *)

\* The navigation call made by the setter invocation recorded in last.
theCall == calls[Len(calls)]

SingleCall == last # None /\ last.hook = "useQueryState"

StatesCall == last # None /\ last.hook = "useQueryStates"

\* C1: the patch function of a single-key functional update returns the raw
\* dictionary it is given, unchanged, whenever the serialization of the
\* updater's result is undefined.
C1_PreserveOnUndefined ==
    (SingleCall /\ isUpdaterFunction(last.stateUpdater)) =>
        /\ theCall.url.query.t = "fn"
        /\ \A d \in Dicts :
              Serialize(rendered.serialize,
                        CallUpdater(last.stateUpdater,
                                    Parse(rendered.parse, Get(d, key)))) = Undefined
              => applyPatch(theCall.url.query, d).res = d

\* A functional update whose result serializes to undefined was applied to a
\* dictionary that holds the key, and gave that dictionary back.
C1_Witness ==
    /\ Len(applied) = 1
    /\ applied[1].call.url.query.t = "fn"
    /\ applied[1].call.url.query.hook = "useQueryState"
    /\ applied[1].call.url.query.stateUpdater = Fn("undef")
    /\ key \in DOMAIN applied[1].in
    /\ applied[1].res = applied[1].in

\* C2: when queued single-key functional updates are applied in call order,
\* the i-th updater is called with the parse of the key's raw value in the
\* output of patch i-1 (the current query for the first), and two increments
\* starting from {val: "123"} give {val: "124"} and then {val: "125"}.
C2_Freshness ==
    /\ \A i \in 1..Len(applied) :
          LET e == applied[i]
              patch == e.call.url.query
              prevOut == IF i = 1 THEN query ELSE applied[i - 1].res
          IN (patch.t = "fn" /\ patch.hook = "useQueryState") =>
                /\ e.in = prevOut
                /\ e.arg = Parse(patch.parse, Get(prevOut, key))
    /\ ( /\ Len(applied) >= 2
         /\ query = [k \in {key} |-> s123]
         /\ \A i \in 1..2 : /\ applied[i].call.url.query.stateUpdater = Fn("inc")
                            /\ applied[i].call.url.query.parse = "integer"
                            /\ applied[i].call.url.query.serialize = "integer" )
       => /\ applied[1].res = [k \in {key} |-> Str(<<"1", "2", "4">>)]
          /\ applied[2].res = [k \in {key} |-> Str(<<"1", "2", "5">>)]

\* Two increments were queued and then applied, the second one seeing the
\* output of the first.
C2_Witness ==
    /\ Len(applied) >= 2
    /\ applied[1].call.url.query.stateUpdater = Fn("inc")
    /\ applied[2].call.url.query.stateUpdater = Fn("inc")
    /\ applied[1].arg = Num(123)
    /\ applied[2].arg = Num(124)

PerKeyEntry(K, u, patch, k) ==
    LET sv == serializeWith(K[k], u[k])
    IN IF sv = Undefined THEN k \notin DOMAIN patch
       ELSE k \in DOMAIN patch /\ patch[k] = sv

\* C4: the serialized partial of a multi-key update holds, for every key of
\* the KeyMap present in the update, that key's own value serialized by that
\* key's serializer, and no entry when that is undefined.
C4_SerializedPerKey ==
    StatesCall =>
        LET K == updateStates.keys
            patch == theCall.url.query
        IN IF isUpdaterFunction(last.stateUpdater)
           THEN \A d \in Dicts :
                   LET u == CallStatesUpdater(last.stateUpdater, parseObject(d, K))
                       out == applyPatch(patch, d).res
                   IN \A k \in DOMAIN K \cap DOMAIN u :
                         LET sv == serializeWith(K[k], u[k])
                         IN Get(out, k) = IF sv = Undefined THEN Get(d, k) ELSE sv
           ELSE \A k \in DOMAIN K \cap DOMAIN last.stateUpdater.v :
                   PerKeyEntry(K, last.stateUpdater.v, patch.v, k)

\* C5: a multi-key update leaves every key outside the set W of updated keys
\* as it was: a function patch returns a dictionary that agrees with its input
\* outside W, an object patch has no key outside W.
C5_MultiKeyMerge ==
    StatesCall =>
        LET K == updateStates.keys
            patch == theCall.url.query
        IN IF isUpdaterFunction(last.stateUpdater)
           THEN \A d \in Dicts :
                   LET W == DOMAIN CallStatesUpdater(last.stateUpdater, parseObject(d, K))
                       out == applyPatch(patch, d).res
                   IN \A k \in (DOMAIN d \cup DOMAIN out) \ W :
                         k \in DOMAIN d /\ k \in DOMAIN out /\ out[k] = d[k]
           ELSE /\ DOMAIN patch.v \subseteq DOMAIN last.stateUpdater.v
                /\ \A d \in Dicts :
                      \A k \in (DOMAIN d \cup DOMAIN patch.v) \ DOMAIN last.stateUpdater.v :
                         Spread(d, patch.v)[k] = d[k]

\* A multi-key update of val alone was applied to a dictionary that also
\* holds other, which kept its raw value while val changed.
C5_Witness ==
    /\ Len(applied) = 1
    /\ applied[1].call.url.query.t = "fn"
    /\ applied[1].call.url.query.hook = "useQueryStates"
    /\ "other" \in DOMAIN applied[1].call.url.query.keys
    /\ "other" \in DOMAIN applied[1].in
    /\ applied[1].res["other"] = applied[1].in["other"]
    /\ applied[1].res # applied[1].in

DirectUndefined ==
    /\ SingleCall
    /\ ~isUpdaterFunction(last.stateUpdater)
    /\ Serialize(rendered.serialize, last.stateUpdater) = Undefined

\* C6, as claimed: a direct value whose serialization is undefined gives a
\* patch object with no entry for the key, so that merging it keeps the key's
\* previous raw value.
C6_DirectUndefinedOmitted ==
    DirectUndefined =>
        /\ key \notin DOMAIN theCall.url.query.v
        /\ \A d \in Dicts : Get(Spread(d, theCall.url.query.v), key) = Get(d, key)

\* C6, amended: a direct value whose serialization is undefined gives a patch
\* object whose only entry is the key, with the value undefined.
C6_DirectUndefinedEntry ==
    DirectUndefined =>
        /\ theCall.url.query.t = "obj"
        /\ DOMAIN theCall.url.query.v = {key}
        /\ theCall.url.query.v[key] = Undefined

\* The single-key setter was called with the direct value undefined.
C6_Witness ==
    /\ DirectUndefined
    /\ last.stateUpdater = Undefined
    /\ theCall.url.query = Obj([k \in {key} |-> Undefined])

C8_ValueNeverStale ==
    (rendered # None /\ rendered.stable) =>
        value = Parse(rendered.parse, rendered.routerValue)

\* C9: a render that is given another parse while the raw value and dynamic
\* are as in the render before keeps the value when dynamic is false, and
\* returns the new parse of the raw value when dynamic is true.
C9_RecomputationTrigger ==
    [][ ( /\ rendered # None
          /\ rendered' # rendered
          /\ rendered'.parse # rendered.parse
          /\ rendered'.routerValue = rendered.routerValue
          /\ rendered'.dynamic = rendered.dynamic )
        => IF rendered'.dynamic
           THEN value' = Parse(rendered'.parse, rendered'.routerValue)
           ELSE value' = value ]_vars

\* With dynamic false the hook was rendered with the integer parse on "123"
\* and still returns the string the default parse gave.
C9_Witness ==
    /\ rendered # None
    /\ ~rendered.dynamic
    /\ rendered.parse = "integer"
    /\ rendered.routerValue = s123
    /\ value = s123

\* C10: the single-key setter called with a direct value alone, on a hook
\* with no configured history, calls replace with ({query: {[key]:
\* serialize(v)}}, undefined, {}).
C10_DefaultArguments ==
    ( /\ SingleCall
      /\ ~isUpdaterFunction(last.stateUpdater)
      /\ last.options = Undefined
      /\ last.transitionOptions = Undefined
      /\ last.history = Undefined )
    => /\ Len(calls) = 1
       /\ theCall = [method |-> "replace",
                     url |-> [query |-> Obj([k \in {key} |->
                                Serialize(rendered.serialize, last.stateUpdater)])],
                     as |-> Undefined,
                     options |-> Obj(EmptyObj)]

====
